---- MODULE Spec2Model ----
(***************************************************************************)
(* Model of src/app.py: the refresh-gated primary cache (get_mons_smart),  *)
(* the per-URL learnset cache (learnset), the link resolver and the row    *)
(* parsers they call, run by concurrent request handlers.                  *)
(* Spec runs the handlers concurrently, SpecSerial one request at a time;  *)
(* SpecParse and SpecLink apply parse_mons_from_csv_text and               *)
(* _sheet_link_to_csv_url on their own to every input of a bounded set.    *)
(*                                                                         *)
(* Text is modelled as a sequence of one-character strings, a cell with    *)
(* several lines as a sequence of lines, a CSV text by the rows            *)
(* csv.reader yields for it, and a link by its sequence of URL tokens.     *)
(***************************************************************************)
EXTENDS Integers, Sequences, FiniteSets, TLC

(***************************************************************************)
(* Bounds of the model.                                                    *)
(***************************************************************************)
MaxCalls == 2
MaxTicks == 1

(***************************************************************************)
(* Program constants.                                                      *)
(***************************************************************************)
CHECK_SECONDS == 300
LEARNSET_CACHE_SECONDS == 480

None == "None"

(***************************************************************************)
(* String helpers (str.strip, str.lower, re.sub) over character sequences. *)
(***************************************************************************)
Whitespace == {" ", "\t"}

RECURSIVE lstrip(_, _)
lstrip(s, chars) ==
    IF s = <<>> THEN <<>>
    ELSE IF Head(s) \in chars THEN lstrip(Tail(s), chars) ELSE s

RECURSIVE rstrip(_, _)
rstrip(s, chars) ==
    IF s = <<>> THEN <<>>
    ELSE IF s[Len(s)] \in chars THEN rstrip(SubSeq(s, 1, Len(s) - 1), chars) ELSE s

strip(s, chars) == rstrip(lstrip(s, chars), chars)

UpperCase == <<"A", "B", "C", "D", "E", "F", "G", "H", "I", "J", "K", "L", "M",
               "N", "O", "P", "Q", "R", "S", "T", "U", "V", "W", "X", "Y", "Z">>
LowerCase == <<"a", "b", "c", "d", "e", "f", "g", "h", "i", "j", "k", "l", "m",
               "n", "o", "p", "q", "r", "s", "t", "u", "v", "w", "x", "y", "z">>
Digits == <<"0", "1", "2", "3", "4", "5", "6", "7", "8", "9">>

lower_char(ch) ==
    IF \E i \in 1..Len(UpperCase) : UpperCase[i] = ch
    THEN LowerCase[CHOOSE i \in 1..Len(UpperCase) : UpperCase[i] = ch]
    ELSE ch

lower(s) == [i \in 1..Len(s) |-> lower_char(s[i])]

SlugChars == {LowerCase[i] : i \in 1..Len(LowerCase)} \cup {Digits[i] : i \in 1..Len(Digits)}

\* re.sub(r"[^a-z0-9]+", "-", name): every maximal run of other characters
\* becomes one "-".
RECURSIVE sub_non_slug(_, _)
sub_non_slug(s, inRun) ==
    IF s = <<>> THEN <<>>
    ELSE IF Head(s) \in SlugChars
         THEN <<Head(s)>> \o sub_non_slug(Tail(s), FALSE)
         ELSE IF inRun THEN sub_non_slug(Tail(s), TRUE)
              ELSE <<"-">> \o sub_non_slug(Tail(s), TRUE)

slugify(name) ==
    LET n1 == lower(strip(name, Whitespace))
        n2 == sub_non_slug(n1, FALSE)
        n3 == strip(n2, {"-"})
    IN  IF n3 = <<>> THEN <<"m", "o", "n">> ELSE n3

(***************************************************************************)
(* Links.  A link is the sequence of its URL tokens; an export URL built   *)
(* by the resolver is a record of the template used, the identifier and    *)
(* the gid.                                                                *)
(***************************************************************************)
IdTokens == {"SHEET1", "SHEET2", "PUB1", "e"}
LongIdTokens == {"LONGSHEETID0123456789"}
DigitTokens == {"0", "7"}
GidMarks == {"#gid=", "&gid=", "?gid="}

\* re.search(r"[#&?]gid=(\d+)", url): the digits after the first gid mark
\* that is followed by digits.
RECURSIVE search_gid(_)
search_gid(url) ==
    IF Len(url) < 2 THEN None
    ELSE IF url[1] \in GidMarks /\ url[2] \in DigitTokens THEN url[2]
         ELSE search_gid(Tail(url))

\* re.search(r"googleusercontent\.com/.*/([a-zA-Z0-9-_]{20,})\?", url)
RECURSIVE search_usercontent_tail(_)
search_usercontent_tail(url) ==
    IF Len(url) < 3 THEN None
    ELSE LET rest == search_usercontent_tail(Tail(url))
         IN  IF rest # None THEN rest   \* ".*" is greedy: the last match wins
             ELSE IF url[1] = "/" /\ url[2] \in LongIdTokens
                     /\ url[3] \in {"?", "?gid="}
                  THEN url[2] ELSE None

RECURSIVE search_usercontent(_)
search_usercontent(url) ==
    IF url = <<>> THEN None
    ELSE IF url[1] = "googleusercontent.com" /\ Len(url) >= 2 /\ url[2] = "/"
         THEN LET m == search_usercontent_tail(Tail(url))
              IN  IF m # None THEN m ELSE search_usercontent(Tail(url))
         ELSE search_usercontent(Tail(url))

\* re.search(r"docs\.google\.com/spreadsheets/d/([a-zA-Z0-9-_]+)", url)
RECURSIVE search_standard(_)
search_standard(url) ==
    IF Len(url) < 3 THEN None
    ELSE IF url[1] = "docs.google.com" /\ url[2] = "/spreadsheets/d/"
            /\ url[3] \in IdTokens \cup LongIdTokens
         THEN url[3] ELSE search_standard(Tail(url))

\* re.search(r"docs\.google\.com/spreadsheets/d/e/([a-zA-Z0-9-_]+)", url)
RECURSIVE search_published(_)
search_published(url) ==
    IF Len(url) < 5 THEN None
    ELSE IF url[1] = "docs.google.com" /\ url[2] = "/spreadsheets/d/"
            /\ url[3] = "e" /\ url[4] = "/"
            /\ url[5] \in IdTokens \cup LongIdTokens
         THEN url[5] ELSE search_published(Tail(url))

ExportUrl(kind, id, gid) == [kind |-> kind, id |-> id, gid |-> gid]

\* The resolver returning None, and the resolver reaching the fallback
\* request of line 218.
NoUrl == [kind |-> "None"]
Follow == [kind |-> "Follow"]

\* Lines 187-214: the part of _sheet_link_to_csv_url that needs no network.
sheet_link_direct(link) ==
    IF link = <<>> THEN NoUrl
    ELSE LET url == strip(link, Whitespace)
             gid_match == search_gid(url)
             gid == IF gid_match # None THEN gid_match ELSE "0"
         IN  IF search_usercontent(url) # None
             THEN ExportUrl("export", search_usercontent(url), gid)
             ELSE IF search_standard(url) # None
             THEN ExportUrl("gviz", search_standard(url), gid)
             ELSE IF search_published(url) # None
             THEN ExportUrl("pub", search_published(url), gid)
             ELSE Follow

\* Lines 224-241: the patterns applied to the final URL of the redirect
\* chain (r.url).
sheet_link_followed(link, final) ==
         LET url == strip(link, Whitespace)
             gid_first == search_gid(url)
             gid == IF gid_first # None THEN gid_first ELSE "0"
             gid_match == search_gid(final)
             gid2 == IF gid_match # None THEN gid_match ELSE gid
         IN  IF search_standard(final) # None
             THEN ExportUrl("export", search_standard(final), gid2)
             ELSE IF search_published(final) # None
             THEN ExportUrl("pub", search_published(final), gid2)
             ELSE NoUrl

(***************************************************************************)
(* The texts the sources can serve, by name, with the rows csv.reader      *)
(* yields for each.  csv_raises holds of a text on which csv.reader raises  *)
(* csv.Error (a field over the field size limit).                          *)
(***************************************************************************)

StdLink == <<"https://", "docs.google.com", "/spreadsheets/d/", "SHEET1", "/edit", "#gid=", "7">>
ShortLink == <<" ", "https://", "short.example", "/x">>

HeaderRow == <<<<<<"N">>>>, <<>>, <<>>, <<>>, <<>>, <<>>, <<"L">>>>
RowAb == <<<<<<" ">>, <<"A", "b">>, <<"d">>>>, <<>>, <<>>, <<>>, <<>>, <<>>, StdLink>>
RowB1 == <<<<<<"B", "!", "1">>>>, <<>>, <<>>, <<>>, <<>>, <<>>, ShortLink>>
RowBlank == <<<<<<" ">>, <<>>>>, <<>>, <<>>, <<>>, <<>>, <<>>, StdLink>>
RowShort == <<<<<<"a", "B">>>>>>

PrimaryTexts == {"p_head", "p_one", "p_two", "p_bad"}

LHeaderRow == <<<<"U", "p">>, <<" ", "T">>, <<>>, <<"E">>>>
LRow1 == <<<<"t">>, <<"f", " ">>, <<"x">>, <<>>>>
LRow2 == <<<<"g">>>>

SecondaryTexts == {"s_head", "s_one", "s_bad"}

FinalUrls ==
    { <<"https://", "docs.google.com", "/spreadsheets/d/", "SHEET2", "/edit">>,
      <<"https://", "other.example", "/">> }

csv_reader(text) ==
    CASE text = "p_head" -> <<HeaderRow>>
      [] text = "p_one"  -> <<HeaderRow, RowAb, RowBlank, RowB1, RowShort>>
      [] text = "p_two"  -> <<HeaderRow, RowShort>>
      [] text = "s_head" -> <<LHeaderRow>>
      [] text = "s_one"  -> <<LHeaderRow, LRow1>>
      [] text = "s_two"  -> <<LHeaderRow, LRow1, LRow2>>
      [] OTHER -> <<>>

csv_raises(text) == text \in {"p_bad", "s_bad"}

\* hashlib.sha256(...).hexdigest(): distinct texts have distinct digests.
sha256(text) == <<"sha256", text>>

pad(row, n) == row \o [i \in 1..(n - Len(row)) |-> <<>>]

\* A test of the line itself, which takes a line of spaces for text.
NonBlank_unstripped(line) == line # <<>>

\* Line 119: if l.strip()
NonBlank(line) == strip(line, Whitespace) # <<>>

\* s.startswith(prefix)
startswith(s, prefix) ==
    Len(s) >= Len(prefix) /\ SubSeq(s, 1, Len(prefix)) = prefix

\* ch in s
contains(s, ch) == \E i \in 1..Len(s) : s[i] = ch

\* s.split(sep, 1) for s that contains sep: <<before, after>>.
split_first(s, sep) ==
    LET i == CHOOSE j \in 1..Len(s) : s[j] = sep /\ \A k \in 1..(j - 1) : s[k] # sep
    IN  <<SubSeq(s, 1, i - 1), SubSeq(s, i + 1, Len(s))>>

\* s.split(sep): the pieces between the separators, empty pieces included.
RECURSIVE split_all(_, _)
split_all(s, sep) ==
    IF ~contains(s, sep) THEN <<s>>
    ELSE <<split_first(s, sep)[1]>> \o split_all(split_first(s, sep)[2], sep)

\* s.replace(a, b) for single characters.
replace_char(s, a, b) == [i \in 1..Len(s) |-> IF s[i] = a THEN b ELSE s[i]]

\* "\n".join(lines).strip().splitlines() for non-blank lines: the first
\* line loses its leading and the last its trailing whitespace.
strip_text(lines) ==
    IF lines = <<>> THEN <<>>
    ELSE LET l1 == [lines EXCEPT ![1] = lstrip(@, Whitespace)]
         IN  [l1 EXCEPT ![Len(l1)] = rstrip(@, Whitespace)]

TypePrefix == <<"t", "y", "p", "e", ":">>

\* The test without lower(): "TYPE:" and "Type:" are no tag lines.
is_type_line_cased(line) == startswith(strip(line, Whitespace), TypePrefix)

\* Lines 52 and 64: line.strip().lower().startswith("type:")
is_type_line(line) == startswith(lower(strip(line, Whitespace)), TypePrefix)

NonBlank_part(t) == strip(t, Whitespace) # <<>>

\* Lines 53-55: the types one "Type:" line declares.
types_of_line(line) ==
    LET raw == strip(split_first(line, ":")[2], Whitespace)
        pieces == split_all(replace_char(raw, ",", "/"), "/")
        kept == SelectSeq(pieces, NonBlank_part)
    IN  [i \in 1..Len(kept) |-> strip(kept[i], Whitespace)]

\* Lines 41-57, on the lines of description.
RECURSIVE extract_types(_)
extract_types(description) ==
    IF description = <<>> THEN <<>>
    ELSE (IF is_type_line(Head(description)) THEN types_of_line(Head(description))
          ELSE <<>>) \o extract_types(Tail(description))

Not_type_line(line) == ~is_type_line(line)

\* Lines 60-67, on the lines of description.
remove_type_lines(description) == strip_text(SelectSeq(description, Not_type_line))

\* int(m.group(0)) for a run of digits.
DigitValue(ch) == (CHOOSE i \in 1..Len(Digits) : Digits[i] = ch) - 1

RECURSIVE to_int(_)
to_int(ds) ==
    IF ds = <<>> THEN 0
    ELSE 10 * to_int(SubSeq(ds, 1, Len(ds) - 1)) + DigitValue(ds[Len(ds)])

IsDigit(ch) == \E i \in 1..Len(Digits) : Digits[i] = ch

\* re.search(r"\d+", val): the first maximal run of digits, <<>> when
\* there is none.
RECURSIVE digit_run(_)
digit_run(val) ==
    IF val = <<>> THEN <<>>
    ELSE IF IsDigit(Head(val))
         THEN <<Head(val)>> \o (IF Len(val) > 1 /\ IsDigit(val[2])
                                 THEN digit_run(Tail(val)) ELSE <<>>)
         ELSE digit_run(Tail(val))

\* A value of the stats dict: an int, or the trimmed text.
IntValue(n) == [kind |-> "int", n |-> n, s |-> <<>>]
StrValue(s) == [kind |-> "str", n |-> 0, s |-> s]

\* stats[key] = value on a dict kept as the sequence of its <<key, value>>
\* items in insertion order.
RECURSIVE dict_put(_, _, _)
dict_put(items, key, value) ==
    IF items = <<>> THEN << <<key, value>> >>
    ELSE IF Head(items)[1] = key THEN << <<key, value>> >> \o Tail(items)
         ELSE <<Head(items)>> \o dict_put(Tail(items), key, value)

\* Line 35: the key under which a stat line is stored.
stat_key(key) ==
    replace_char(strip(strip(key, Whitespace), {"\""}), "_", " ")

\* Lines 31-37 for one line of the stats cell.
stats_with_line(stats, line0) ==
    LET line == strip(strip(strip(line0, Whitespace), {","}), {"\""})
    IN  IF line = <<>> \/ ~contains(line, ":") THEN stats
        ELSE LET key == stat_key(split_first(line, ":")[1])
                 val == split_first(line, ":")[2]
                 m == digit_run(val)
             IN  dict_put(stats, key,
                          IF m # <<>> THEN IntValue(to_int(m))
                          ELSE StrValue(strip(val, Whitespace)))

\* Lines 27-38, on the lines of the stats cell.
RECURSIVE parse_stats_from(_, _)
parse_stats_from(stats, stats_text) ==
    IF stats_text = <<>> THEN stats
    ELSE parse_stats_from(stats_with_line(stats, Head(stats_text)), Tail(stats_text))

parse_stats(stats_text) == parse_stats_from(<<>>, stats_text)

\* Lines 116-145 for one row: what the row appends to mons, nothing when
\* the row is skipped (line 121).  Of the keys of a mon those the caches
\* and the lookups read are kept; moves_raw, abilities_raw, stats_raw,
\* image_url and credits are left out: nothing here reads them.
mons_of_row(row0) ==
    LET row == pad(row0, 7)
        colA == row[1]
        colD == row[4]
        colG == row[7]
        lines == SelectSeq(colA, NonBlank)
    IN  IF lines = <<>> THEN <<>>
        ELSE LET name == strip(lines[1], Whitespace)
                 raw_description == strip_text(Tail(lines))
             IN  <<[id |-> slugify(name), name |-> name,
                    description |-> remove_type_lines(raw_description),
                    types |-> extract_types(raw_description),
                    stats |-> parse_stats(colD),
                    moves_link |-> strip(colG, Whitespace)]>>

RECURSIVE mons_of_rows(_)
mons_of_rows(rows) ==
    IF rows = <<>> THEN <<>>
    ELSE mons_of_row(Head(rows)) \o mons_of_rows(Tail(rows))

\* Lines 104-147, on the rows csv.reader gave.
parse_mons_from_reader(reader) ==
    IF reader = <<>> THEN <<>>
    ELSE mons_of_rows(Tail(reader))

\* Lines 99-147, for a text on which csv.reader does not raise.
parse_mons_from_csv_text(text) == parse_mons_from_reader(csv_reader(text))

\* Lines 253-280, for a text on which csv.reader does not raise.  A listing
\* is the sequence of <<header, items>> pairs of the dict, in insertion
\* order.
RECURSIVE dedup(_, _)
dedup(hs, seen) ==
    IF hs = <<>> THEN <<>>
    ELSE IF Head(hs) = <<>> \/ Head(hs) \in seen THEN dedup(Tail(hs), seen)
         ELSE <<Head(hs)>> \o dedup(Tail(hs), seen \cup {Head(hs)})

RECURSIVE cells_under(_, _, _, _)
cells_under(h, headers, r, i) ==
    IF i > Len(headers) THEN <<>>
    ELSE LET cell == strip(r[i], Whitespace)
         IN  (IF headers[i] = h /\ cell # <<>> THEN <<cell>> ELSE <<>>)
             \o cells_under(h, headers, r, i + 1)

RECURSIVE items_under(_, _, _)
items_under(h, headers, rows) ==
    IF rows = <<>> THEN <<>>
    ELSE cells_under(h, headers, pad(Head(rows), Len(headers)), 1)
         \o items_under(h, headers, Tail(rows))

NonEmptyCategory(pair) == pair[2] # <<>>

parse_learnset_csv(text) ==
    LET rows == csv_reader(text)
    IN  IF rows = <<>> THEN <<>>
        ELSE LET headers == [i \in 1..Len(rows[1]) |-> strip(rows[1][i], Whitespace)]
                 keys == dedup(headers, {})
                 out == [k \in 1..Len(keys) |->
                            <<keys[k], items_under(keys[k], headers, Tail(rows))>>]
             IN  SelectSeq(out, NonEmptyCategory)

\* The parsers applied to each text the sources can serve.
ParsedMons ==
    [text \in {x \in PrimaryTexts : ~csv_raises(x)} |-> parse_mons_from_csv_text(text)]

ParsedListing ==
    [text \in {x \in SecondaryTexts : ~csv_raises(x)} |-> parse_learnset_csv(text)]

(***************************************************************************)
(* State.                                                                  *)
(***************************************************************************)
VARIABLES
    clock,                \* time.time()
    ticks,                \* number of clock advances so far
    _last_check,          \* line 151
    _last_hash,           \* line 152
    _cached_mons,         \* line 153
    _learnset_cache,      \* line 247
    _learnset_cache_ts,   \* line 248
    pc,                   \* per request handler: the line it stands at
    loc,                  \* per request handler: its local variables
    calls,                \* number of requests started so far
    response,             \* the outcome handed to the server by the last step
    lastFetched,          \* history: text of the last successful primary fetch
    lastSent,             \* history: clock at the last primary request, or -1
    lastSentUrl,          \* history: per export URL, clock at its last request
    everValid,            \* history: a primary fetch and parse has succeeded
    parsedFrom,           \* history: per export URL, the text its listing is the parse of
    listingParses,        \* history: number of calls of _parse_learnset_csv
    arg,                  \* the argument of a function applied on its own
    result,               \* what the function returned
    applied               \* the function has returned

vars == <<clock, ticks, _last_check, _last_hash, _cached_mons, _learnset_cache,
          _learnset_cache_ts, pc, loc, calls, response, lastFetched, lastSent,
          lastSentUrl, everValid, parsedFrom, listingParses, arg, result,
          applied>>

cacheVars == <<_last_check, _last_hash, _cached_mons>>
learnsetVars == <<_learnset_cache, _learnset_cache_ts>>
learnsetHist == <<parsedFrom, listingParses>>
histVars == <<lastFetched, lastSent, lastSentUrl, everValid, learnsetHist>>
pureVars == <<arg, result, applied>>

\* The request handlers that may run at the same time (threads of the
\* server).
Callers == {"h1", "h2"}

\* The handlers are interchangeable: a request goes to this one when it is
\* free.
FirstCaller == "h1"

\* time.time() at process start lies far beyond both freshness windows.
Epoch == CHECK_SECONDS + LEARNSET_CACHE_SECONDS

TickSteps == {CHECK_SECONDS, LEARNSET_CACHE_SECONDS}

MonIds == { <<"a", "b">>, <<"b", "-", "1">> }

NoHash == <<>>
NoText == ""
EmptyMap == [x \in {} |-> 0]

\* dict.get(key, default)
dict_get(d, key, default) == IF key \in DOMAIN d THEN d[key] ELSE default

\* A store that rebinds the whole dict to {key: value}.
dict_set_rebinds(d, key, value) == [k \in {key} |-> value]

\* d[key] = value
dict_set(d, key, value) ==
    [k \in DOMAIN d \cup {key} |-> IF k = key THEN value ELSE d[k]]

\* What a request handler gives the server: the value it returns (the mons
\* rendered by dex, the listing of learnset), or the exception it raises.
NoResponse == [op |-> "", kind |-> "none"]
Returned(op, kind, val) == [op |-> op, kind |-> kind, val |-> val]
Raised(op, exc) == [op |-> op, kind |-> "raise", val |-> exc]

\* The local variables of a handler that is not running, and of one that
\* starts.  same, changed and parses are the history of the call.
FreshLocals ==
    [op |-> "", mon_id |-> <<>>, now |-> 0, csv_text |-> NoText, h |-> NoHash,
     csv_url |-> NoUrl,
     same |-> FALSE,         \* its fetch returned the text of the fetch before
     changed |-> FALSE,      \* line 178 found a different fingerprint
     parses |-> 0]           \* its calls of parse_mons_from_csv_text


\* The module state after import, no request running.
InitCaches ==
    /\ clock = Epoch
    /\ ticks = 0
    /\ _last_check = 0
    /\ _last_hash = NoHash
    /\ _cached_mons = <<>>
    /\ _learnset_cache = EmptyMap
    /\ _learnset_cache_ts = EmptyMap
    /\ pc = [t \in Callers |-> "idle"]
    /\ loc = [t \in Callers |-> FreshLocals]
    /\ calls = 0
    /\ response = NoResponse
    /\ lastFetched = NoText
    /\ lastSent = -1
    /\ lastSentUrl = EmptyMap
    /\ everValid = FALSE
    /\ parsedFrom = EmptyMap
    /\ listingParses = 0

Init ==
    /\ InitCaches
    /\ arg = <<>>
    /\ result = <<>>
    /\ applied = FALSE

\* time.time(): the time that has passed since the last request arrived is
\* seen when the next one reads the clock at line 162.  Within one request
\* the requests it sends end within their timeout of 15 s, far less than a
\* freshness window, so line 300 reads the same time.
Elapsed == IF ticks < MaxTicks THEN {0} \cup TickSteps ELSE {0}

time_time(d) ==
    /\ clock' = clock + d
    /\ ticks' = IF d > 0 THEN ticks + 1 ELSE ticks

(***************************************************************************)
(* get_mons_smart, lines 156-184, run by handler t.  It returns to dex     *)
(* (line 333) or into learnset (line 285).                                 *)
(***************************************************************************)
\* The locals of learnset from line 300 on: the frame of get_mons_smart is
\* gone, mon_id, mon and link are read no more.
InLearnset(l, csv_url) ==
    [FreshLocals EXCEPT !.op = l.op, !.csv_url = csv_url]

\* Handler t goes on at line p with locals l.
Continues(t, p, l) ==
    /\ pc' = [pc EXCEPT ![t] = p]
    /\ loc' = [loc EXCEPT ![t] = l]
    /\ response' = NoResponse

\* Handler t ends with outcome r: its frame is gone, it is free again.
Ends(t, r) ==
    /\ pc' = [pc EXCEPT ![t] = "idle"]
    /\ loc' = [loc EXCEPT ![t] = FreshLocals]
    /\ response' = r

\* learnset returning jsonify(listing).
JsonReturns(t, l, listing) == Ends(t, Returned(l.op, "json", listing))

\* An exception leaving the handler.
Raises(t, l, exc) == Ends(t, Raised(l.op, exc))

\* Line 286: next((m for m in mons if m["id"] == mon_id), None), as the
\* list of its at most one result.
RECURSIVE find_mon(_, _)
find_mon(mons, mon_id) ==
    IF mons = <<>> THEN <<>>
    ELSE IF Head(mons).id = mon_id THEN <<Head(mons)>>
         ELSE find_mon(Tail(mons), mon_id)

\* Lines 216-241: the fallback request of _sheet_link_to_csv_url.  The
\* results it can have: None when the request raises, else what the
\* patterns give on a final URL.  The request reads and writes no state of
\* the caches.
follow_results(link) ==
    IF strip(link, Whitespace) = <<>> THEN {NoUrl}   \* no URL to request
    ELSE {NoUrl} \cup {sheet_link_followed(link, final) : final \in FinalUrls}

\* Lines 186-241: the results _sheet_link_to_csv_url can have.
sheet_link_to_csv_url(link) ==
    IF sheet_link_direct(link) = Follow THEN follow_results(link)
    ELSE {sheet_link_direct(link)}

\* Lines 285-298 of learnset once get_mons_smart has returned mons: the
\* lookup and _sheet_link_to_csv_url, up to the clock read of line 300.
LearnsetResolves(t, l, mons) ==
    LET found == find_mon(mons, l.mon_id)
    IN  IF found = <<>> THEN JsonReturns(t, l, <<>>)
        ELSE LET link == strip(found[1].moves_link, Whitespace)
             IN  \E csv_url \in sheet_link_to_csv_url(link) :
                    IF csv_url = NoUrl THEN JsonReturns(t, l, <<>>)
                    ELSE Continues(t, "l300", InLearnset(l, csv_url))

\* get_mons_smart returning mons to its caller.
GetReturns(t, l, mons) ==
    IF l.op = "dex" THEN Ends(t, Returned(l.op, "mons", mons))
    ELSE LearnsetResolves(t, l, mons)

\* Line 165: the hit test.
cache_hit(now) == _cached_mons # <<>> /\ (now - _last_check) < CHECK_SECONDS

\* A request arrives (dex, line 331, or learnset, line 284) and runs lines
\* 162-168 up to sending the request for CSV_URL.
Call(t, op, mon_id, d) ==
    /\ pc[t] = "idle"
    /\ calls < MaxCalls
    /\ pc[FirstCaller] = "idle" => t = FirstCaller
    /\ calls' = calls + 1
    /\ time_time(d)
    /\ LET now == clock'
           l == [FreshLocals EXCEPT !.op = op, !.mon_id = mon_id, !.now = now]
       IN  IF cache_hit(now)
           THEN /\ GetReturns(t, l, _cached_mons)
                /\ UNCHANGED lastSent
           ELSE /\ Continues(t, "g168", l)
                /\ lastSent' = now
    /\ UNCHANGED <<pureVars, cacheVars, learnsetVars, lastFetched,
                   lastSentUrl, everValid, learnsetHist>>

Dex(t) == \E d \in Elapsed : Call(t, "dex", <<>>, d)

Learnset(t) == \E mon_id \in MonIds, d \in Elapsed : Call(t, "learnset", mon_id, d)

\* A failed fetch that stamps the check time before the exception leaves.
PrimaryFetchFails_stamps(t) ==
    /\ pc[t] = "g168"
    /\ _last_check' = loc[t].now
    /\ Raises(t, loc[t], "RequestException")
    /\ UNCHANGED <<pureVars, clock, ticks, _last_hash, _cached_mons,
                   learnsetVars, calls, histVars>>

\* Lines 168-169: requests.get raises (no connection, timeout), or
\* raise_for_status raises HTTPError, a RequestException too.  Nothing
\* catches it.
PrimaryFetchFails(t) ==
    /\ pc[t] = "g168"
    /\ Raises(t, loc[t], "RequestException")
    /\ UNCHANGED <<pureVars, clock, ticks, cacheVars, learnsetVars, calls, histVars>>

\* Line 178: the unchanged-content test.
unchanged(h) == h = _last_hash /\ _cached_mons # <<>>

\* Lines 168-179: the response arrives with status 2xx; the handler
\* fingerprints the text, stores its clock reading in _last_check and
\* compares the fingerprint with the stored one.
PrimaryFetchOk(t) ==
    /\ pc[t] = "g168"
    /\ \E text \in PrimaryTexts :
          LET h == sha256(text)
              l == [loc[t] EXCEPT !.csv_text = text, !.h = h,
                                  !.same = (text = lastFetched),
                                  !.changed = (h # _last_hash)]
          IN  /\ lastFetched' = text
              /\ _last_check' = l.now
              /\ IF unchanged(h)
                 THEN GetReturns(t, l, _cached_mons)
                 ELSE Continues(t, "g182", l)
    /\ UNCHANGED <<pureVars, clock, ticks, _last_hash, _cached_mons, learnsetVars, calls,
                   lastSent, lastSentUrl, everValid, learnsetHist>>

\* Line 182.
L182(t) ==
    /\ pc[t] = "g182"
    /\ _last_hash' = loc[t].h
    /\ pc' = [pc EXCEPT ![t] = "g183"]
    /\ response' = NoResponse
    /\ UNCHANGED <<pureVars, clock, ticks, _last_check, _cached_mons, learnsetVars, loc,
                   calls, histVars>>

\* Line 183: parse, then store; csv.reader raising leaves the handler.
L183(t) ==
    /\ pc[t] = "g183"
    /\ LET l == [loc[t] EXCEPT !.parses = @ + 1]
       IN  IF csv_raises(l.csv_text)
           THEN /\ Raises(t, l, "csv.Error")
                /\ UNCHANGED <<_cached_mons, everValid>>
           ELSE /\ _cached_mons' = ParsedMons[l.csv_text]
                /\ everValid' = TRUE
                /\ Continues(t, "g184", l)
    /\ UNCHANGED <<pureVars, clock, ticks, _last_check, _last_hash, learnsetVars, calls,
                   lastFetched, lastSent, lastSentUrl, learnsetHist>>

\* Line 184.
L184(t) ==
    /\ pc[t] = "g184"
    /\ GetReturns(t, loc[t], _cached_mons)
    /\ UNCHANGED <<pureVars, clock, ticks, cacheVars, learnsetVars, calls, histVars>>

(***************************************************************************)
(* learnset, lines 300-323.                                                *)
(***************************************************************************)
\* Line 301: the hit test of the learnset cache.
learnset_hit(csv_url, now) ==
    /\ csv_url \in DOMAIN _learnset_cache
    /\ (now - dict_get(_learnset_cache_ts, csv_url, 0)) < LEARNSET_CACHE_SECONDS

\* Lines 300-305, up to sending the request for csv_url.
L300(t) ==
    /\ pc[t] = "l300"
    /\ LET now == clock
           l == [loc[t] EXCEPT !.now = now]
       IN  IF learnset_hit(l.csv_url, now)
           THEN /\ JsonReturns(t, l, _learnset_cache[l.csv_url])
                /\ UNCHANGED lastSentUrl
           ELSE /\ Continues(t, "l305", l)
                /\ lastSentUrl' = dict_set(lastSentUrl, l.csv_url, now)
    /\ UNCHANGED <<pureVars, clock, ticks, cacheVars, learnsetVars, calls, lastFetched,
                   lastSent, everValid, learnsetHist>>

\* Lines 310-317: the request raises, or the status is not 200.
LearnsetFetchFails(t) ==
    /\ pc[t] = "l305"
    /\ JsonReturns(t, loc[t], <<>>)
    /\ UNCHANGED <<pureVars, clock, ticks, cacheVars, learnsetVars, calls, histVars>>

\* Lines 305-323: status 200; _parse_learnset_csv runs on the body, the
\* listing and the clock reading of line 300 are stored and the listing
\* is returned.  csv.reader raising leaves the handler.
LearnsetFetchOk(t) ==
    /\ pc[t] = "l305"
    /\ \E text \in SecondaryTexts :
          LET l == [loc[t] EXCEPT !.csv_text = text]
          IN  IF csv_raises(text)
              THEN /\ Raises(t, l, "csv.Error")
                   /\ UNCHANGED <<learnsetVars, parsedFrom>>
              ELSE LET parsed == ParsedListing[text]
                   IN  /\ _learnset_cache' = dict_set(_learnset_cache, l.csv_url, parsed)
                       /\ _learnset_cache_ts' = dict_set(_learnset_cache_ts, l.csv_url, l.now)
                       /\ parsedFrom' = dict_set(parsedFrom, l.csv_url, text)
                       /\ JsonReturns(t, l, parsed)
    /\ listingParses' = listingParses + 1
    /\ UNCHANGED <<pureVars, clock, ticks, cacheVars, calls, lastFetched,
                   lastSent, lastSentUrl, everValid>>

Next ==
    \E t \in Callers :
       \/ Dex(t)
       \/ Learnset(t)
       \/ PrimaryFetchFails(t)
       \/ PrimaryFetchOk(t)
       \/ L182(t)
       \/ L183(t)
       \/ L184(t)
       \/ L300(t)
       \/ LearnsetFetchFails(t)
       \/ LearnsetFetchOk(t)

Spec == Init /\ [][Next]_vars

\* The same handlers with the requests served one at a time: a request
\* starts only when no other is running.
Alone(t) == \A u \in Callers \ {t} : pc[u] = "idle"

NextSerial ==
    \E t \in Callers :
       \/ Alone(t) /\ Dex(t)
       \/ Alone(t) /\ Learnset(t)
       \/ Alone(t) /\ PrimaryFetchFails(t)
       \/ Alone(t) /\ PrimaryFetchOk(t)
       \/ Alone(t) /\ L182(t)
       \/ Alone(t) /\ L183(t)
       \/ Alone(t) /\ L184(t)
       \/ Alone(t) /\ L300(t)
       \/ Alone(t) /\ LearnsetFetchFails(t)
       \/ Alone(t) /\ LearnsetFetchOk(t)

SpecSerial == Init /\ [][NextSerial]_vars

(***************************************************************************)
(* Properties.                                                             *)
(***************************************************************************)
\* A request for CSV_URL is in flight for t.
FetchingPrimary(t) == pc[t] = "g168"

\* A request for csv_url is in flight for t.
FetchingUrl(t, csv_url) == pc[t] = "l305" /\ loc[t].csv_url = csv_url

ExportUrls == {loc[t].csv_url : t \in Callers} \ {NoUrl}

\* C1: in every reachable state the stored parsed result is the parse of
\* the content whose fingerprint is stored: _last_hash is still unset, or
\* it is the fingerprint of a text and _cached_mons is the parse of that
\* text.
C1_SnapshotConsistent ==
    \/ _last_hash = NoHash
    \/ \E text \in DOMAIN ParsedMons :
          /\ _last_hash = sha256(text)
          /\ _cached_mons = ParsedMons[text]

\* C2: at most one fetch is in flight per cache key at any time: at most
\* one handler waits for CSV_URL, and for every export URL at most one
\* handler waits for it.
C2_SingleFlight ==
    /\ Cardinality({t \in Callers : FetchingPrimary(t)}) <= 1
    /\ \A csv_url \in ExportUrls :
          Cardinality({t \in Callers : FetchingUrl(t, csv_url)}) <= 1

\* C3: a failed fetch of get_mons_smart never reaches the caller as an
\* exception; the call returns the stored parsed result (the empty list
\* when there is no snapshot): dex gets it as its result, learnset goes on.
C3_FetchFailureServed ==
    [][\A t \in Callers :
          PrimaryFetchFails(t) =>
             /\ response'.kind # "raise"
             /\ loc[t].op = "dex" => response' = Returned("dex", "mons", _cached_mons)]_vars

\* C4: when the fetch of a call returns the very text the successful fetch
\* before it returned, the call invokes the parse function zero times.
C4_NoReparse ==
    \A t \in Callers : loc[t].same => loc[t].parses = 0

\* C5: a call whose fetch returned content with a fingerprint other than
\* the stored one returns, at line 184, with the fingerprint of that
\* content stored, its parse stored and returned, and the call's clock
\* reading as the timestamp.
C5_ChangedReplaces ==
    \A t \in Callers :
       (pc[t] = "g184" /\ loc[t].changed) =>
          /\ _last_hash = sha256(loc[t].csv_text)
          /\ _cached_mons = ParsedMons[loc[t].csv_text]
          /\ _last_check = loc[t].now

\* C6: once a fetch and parse has succeeded, a call made less than
\* CHECK_SECONDS after the stored timestamp sends no request.
C6_FreshHit ==
    [][\A t \in Callers :
          (~FetchingPrimary(t) /\ FetchingPrimary(t)') =>
             ~(everValid /\ (clock' - _last_check) < CHECK_SECONDS)]_vars

\* C7: two successive requests for one cache key are at least the key's
\* freshness window apart, whatever the outcome of the earlier one.
C7_MinInterval ==
    [][\A t \in Callers :
          /\ (~FetchingPrimary(t) /\ FetchingPrimary(t)' /\ lastSent >= 0) =>
                (clock' - lastSent) >= CHECK_SECONDS
          /\ (pc[t] = "l300" /\ pc'[t] = "l305"
              /\ loc[t].csv_url \in DOMAIN lastSentUrl) =>
                (clock' - lastSentUrl[loc[t].csv_url]) >= LEARNSET_CACHE_SECONDS]_vars

\* C8: when a listing is stored for the URL, its timestamp is older than
\* LEARNSET_CACHE_SECONDS and the revalidation fetch fails, learnset
\* returns the stored listing.
C8_StaleListing ==
    [][\A t \in Callers :
          (/\ LearnsetFetchFails(t)
           /\ loc[t].csv_url \in DOMAIN _learnset_cache
           /\ (loc[t].now - dict_get(_learnset_cache_ts, loc[t].csv_url, 0))
                 >= LEARNSET_CACHE_SECONDS) =>
             response' = Returned("learnset", "json", _learnset_cache[loc[t].csv_url])]_vars

\* C9: learnset never raises to its caller: no learnset request ends with
\* an exception.
C9_LearnsetNeverRaises ==
    response.op = "learnset" => response.kind # "raise"

\* C10: once a fetch and parse of the primary dataset has succeeded, the
\* hit test and the unchanged-content test treat a snapshot as existing
\* (both test _cached_mons): _cached_mons is not the empty list.
C10_NeverEmptyAgain == everValid => _cached_mons # <<>>

\* The steps of learnset from its clock read on (lines 300-323), by t.
LearnsetStep(t) == L300(t) \/ LearnsetFetchFails(t) \/ LearnsetFetchOk(t)

\* C11: a step of a learnset call that resolved to URL u leaves the stored
\* listing and the timestamp of every other URL unchanged, whether the call
\* hits, refetches with success or fails to fetch.
C11_OtherUrlsUnchanged ==
    [][\A t \in Callers :
          LearnsetStep(t) =>
             \A u \in DOMAIN _learnset_cache \ {loc[t].csv_url} :
                /\ u \in DOMAIN _learnset_cache'
                /\ _learnset_cache'[u] = _learnset_cache[u]
                /\ u \in DOMAIN _learnset_cache_ts'
                /\ _learnset_cache_ts'[u] = _learnset_cache_ts[u]]_vars

\* A learnset call has just returned a listing while listings of two URLs
\* are stored.
C11_Witness ==
    /\ response.op = "learnset"
    /\ response.kind = "json"
    /\ Cardinality(DOMAIN _learnset_cache) >= 2

\* Line 184 returns into learnset (line 285) and the lookup of line 286
\* finds no mon with the id asked for: learnset ends at line 288.
NotFoundEnds(t) ==
    /\ L184(t)
    /\ loc[t].op = "learnset"
    /\ find_mon(_cached_mons, loc[t].mon_id) = <<>>

\* What learnset returns for a known mon whose link is empty or does not
\* resolve (line 298), whose listing cannot be fetched (lines 312, 317) or
\* whose listing has no category (line 323): jsonify({}).
EmptyListing == Returned("learnset", "json", <<>>)

\* C12: asked for an id that no mon of the current collection has, learnset
\* gives an outcome of its own, which differs from the outcome for a known
\* mon whose listing is empty or unresolvable.
C12_NotFoundDistinct ==
    [][\A t \in Callers : NotFoundEnds(t) => response' # EmptyListing]_vars

(***************************************************************************)
(* parse_mons_from_csv_text applied on its own to the rows of a text.      *)
(***************************************************************************)
MaxRows == 3
MaxLines == 3

\* All sequences over S of length at most n.
SeqsUpTo(S, n) == UNION {[1..k -> S] : k \in 0..n}

EmptyRow == <<>>
RowKinds == {HeaderRow, RowAb, RowB1, RowBlank, RowShort, EmptyRow}

\* Lines a first cell (column A) can hold.
InfoLines ==
    { <<"A", "b">>,
      <<"T", "y", "p", "e", ":", " ", "G", "/", "H">>,
      <<" ", "t", "y", "p", "e", ":", "g", ",", " ", ",", "h", " ">>,
      <<"T", "Y", "P", "E", ":">>,
      <<" ">>,
      <<"d", ":", "e">> }

\* Lines a stats cell (column D) can hold.
StatLines ==
    { <<"h", "p", ":", "6", "0">>,
      <<"H", "p", ":", " ", "7">>,
      <<" ", "A", "_", "b", " ", ":", " ", "0", "8", "x", "1", ",">>,
      <<"\"", "a", "_", "b", "\"", ":", " ", "v", " ">>,
      <<"x">>,
      <<" ">> }

RowOfInfo(cell) == <<cell>>
RowOfStats(cell) == << <<<<"A", "b">>>>, <<>>, <<>>, cell >>

\* The texts parsed: up to MaxRows rows of the sheet, and a header with one
\* row whose first cell, or whose stats cell, has up to MaxLines lines.
ParseInputs ==
    SeqsUpTo(RowKinds, MaxRows)
    \cup {<<HeaderRow, RowOfInfo(cell)>> : cell \in SeqsUpTo(InfoLines, MaxLines)}
    \cup {<<HeaderRow, RowOfStats(cell)>> : cell \in SeqsUpTo(StatLines, MaxLines)}

InitParse ==
    /\ InitCaches
    /\ arg \in ParseInputs
    /\ result = <<>>
    /\ applied = FALSE

\* Lines 102-147 run on the rows of arg.
ParseText ==
    /\ ~applied
    /\ result' = parse_mons_from_reader(arg)
    /\ applied' = TRUE
    /\ UNCHANGED <<arg, clock, ticks, cacheVars, learnsetVars, pc, loc, calls,
                   response, histVars>>

SpecParse == InitParse /\ [][ParseText]_vars

\* The first cell of the row has a line with a character that is not
\* whitespace.
HasNonBlankLine(row) ==
    /\ row # <<>>
    /\ \E i \in 1..Len(row[1]) :
          \E j \in 1..Len(row[1][i]) : row[1][i][j] \notin Whitespace

\* The first such line of the row, trimmed.
FirstNonBlankLine(row) ==
    LET i == CHOOSE k \in 1..Len(row[1]) :
                /\ \E j \in 1..Len(row[1][k]) : row[1][k][j] \notin Whitespace
                /\ \A m \in 1..(k - 1) :
                      \A j \in 1..Len(row[1][m]) : row[1][m][j] \in Whitespace
    IN  strip(row[1][i], Whitespace)

\* The result holds one mon per row of rows that has a non-blank line in
\* its first cell, in row order, named by that line.
OnePerNamedRow(rows, mons) ==
    LET named == SelectSeq(rows, HasNonBlankLine)
    IN  /\ Len(mons) = Len(named)
        /\ \A k \in 1..Len(named) : mons[k].name = FirstNonBlankLine(named[k])

\* C13 as stated: the returned list holds exactly one mon per row of the
\* text whose first field has a non-blank line, in row order, and none for
\* any other row.
C13_SkipIffBlank == applied => OnePerNamedRow(arg, result)

\* C13 amended: the first row of the text is the header and gives no mon
\* whatever it holds; of the rows after it the returned list holds exactly
\* one mon per row whose first field has a non-blank line, in row order,
\* and none for any other row.
C13_SkipIffBlankAfterHeader ==
    applied => OnePerNamedRow(IF arg = <<>> THEN <<>> ELSE Tail(arg), result)

\* A text with a header, a row with a blank first cell and a named row
\* has been parsed to one mon.
C13_Witness ==
    /\ applied
    /\ Len(arg) = 3
    /\ ~HasNonBlankLine(arg[2])
    /\ HasNonBlankLine(arg[3])
    /\ Len(result) = 1

\* A tag-declaration line: trimmed and without regard to case it begins
\* with "type:".
TagLine(line) ==
    LET t == lstrip(line, Whitespace)
    IN  /\ Len(t) >= 5
        /\ lower_char(t[1]) = "t" /\ lower_char(t[2]) = "y"
        /\ lower_char(t[3]) = "p" /\ lower_char(t[4]) = "e" /\ t[5] = ":"

\* The pieces of s between commas and slashes, read left to right; cur is
\* the piece being read.
RECURSIVE Pieces(_, _)
Pieces(s, cur) ==
    IF s = <<>> THEN <<cur>>
    ELSE IF Head(s) \in {",", "/"} THEN <<cur>> \o Pieces(Tail(s), <<>>)
         ELSE Pieces(Tail(s), cur \o <<Head(s)>>)

HasText(piece) == \E j \in 1..Len(piece) : piece[j] \notin Whitespace

\* The values a tag line declares: what follows "type:", split on comma
\* and slash, trimmed, empties dropped.
Declared(line) ==
    LET t == lstrip(line, Whitespace)
        pieces == SelectSeq(Pieces(SubSeq(t, 6, Len(t)), <<>>), HasText)
    IN  [i \in 1..Len(pieces) |-> strip(pieces[i], Whitespace)]

\* The values declared on the tag lines among lines, in order.
RECURSIVE DeclaredIn(_)
DeclaredIn(lines) ==
    IF lines = <<>> THEN <<>>
    ELSE (IF TagLine(Head(lines)) THEN Declared(Head(lines)) ELSE <<>>)
         \o DeclaredIn(Tail(lines))

\* The lines of a first cell after its first non-blank line (the name).
RECURSIVE AfterName(_)
AfterName(cell) ==
    IF cell = <<>> THEN <<>>
    ELSE IF HasText(Head(cell)) THEN Tail(cell) ELSE AfterName(Tail(cell))

\* Every mon of the result has a description without tag lines, and as tags
\* the values declared in the first cell of its row: in the whole cell, or
\* in its lines after the name.
TagsFrom(whole) ==
    LET rows == IF arg = <<>> THEN <<>> ELSE Tail(arg)
        named == SelectSeq(rows, HasNonBlankLine)
    IN  \A k \in 1..Len(named) :
           /\ k <= Len(result)
           /\ \A i \in 1..Len(result[k].description) :
                 ~TagLine(result[k].description[i])
           /\ result[k].types =
                 DeclaredIn(IF whole THEN named[k][1] ELSE AfterName(named[k][1]))

\* C14 as stated: for a first cell with tag-declaration lines, wherever they
\* stand in the cell, the mon's description has no tag line and its tags
\* are exactly the values declared on those lines, in order.
C14_TagsOfCell == applied => TagsFrom(TRUE)

\* C14 amended: the first non-blank line of the cell is the name, also when
\* it has the form of a tag line; for the tag-declaration lines after it,
\* wherever they stand, the description has no tag line and the tags are
\* exactly the values declared on those lines, in order.
C14_TagsAfterName == applied => TagsFrom(FALSE)

\* A cell with a name, a description line and a tag line after it has been
\* parsed: the tag line's two values are the tags, the description line
\* stays.
C14_Witness ==
    /\ applied
    /\ Len(arg) = 2
    /\ Len(arg[2][1]) = 3
    /\ ~TagLine(arg[2][1][1])
    /\ TagLine(arg[2][1][3])
    /\ Len(result) = 1
    /\ Len(result[1].types) = 2
    /\ Len(result[1].description) = 1

\* The keys of a stats dict.
StatKeys(stats) == {stats[i][1] : i \in 1..Len(stats)}

\* The lines of a stats cell that parse_stats stores (lines 31-33): trimmed
\* of whitespace, commas and quotes they are not empty and hold a colon.
StatLine(line0) ==
    LET line == strip(strip(strip(line0, Whitespace), {","}), {"\""})
    IN  line # <<>> /\ contains(line, ":")

\* The key of a stat line as the claim has it: what stands before the first
\* colon, trimmed, underscores turned to spaces, lower-cased.
NormalKey(line0) ==
    LET line == strip(strip(strip(line0, Whitespace), {","}), {"\""})
    IN  lower(stat_key(split_first(line, ":")[1]))

\* C15: parse_stats stores every stat line under its key with underscores
\* replaced by spaces, trimmed and lower-cased, so that keys that differ
\* only in letter case share one entry: every key of stats is lower-case
\* and every stat line of the cell has its entry under its normalized key.
C15_KeysCaseNormalized ==
    applied =>
       LET rows == IF arg = <<>> THEN <<>> ELSE Tail(arg)
           named == SelectSeq(rows, HasNonBlankLine)
       IN  \A k \in 1..Len(named) :
              LET colD == pad(named[k], 7)[4]
                  keys == StatKeys(result[k].stats)
              IN  /\ \A key \in keys : key = lower(key)
                  /\ \A i \in 1..Len(colD) :
                        StatLine(colD[i]) => NormalKey(colD[i]) \in keys

\* The revalidation of a stale listing: handler t gets status 200 for its
\* URL, a listing is stored for the URL, its timestamp is at least
\* LEARNSET_CACHE_SECONDS old, and the text fetched is the text the stored
\* listing was parsed from.
RevalidatesSame(t) ==
    /\ LearnsetFetchOk(t)
    /\ loc[t].csv_url \in DOMAIN _learnset_cache
    /\ (loc[t].now - dict_get(_learnset_cache_ts, loc[t].csv_url, 0))
          >= LEARNSET_CACHE_SECONDS
    /\ loc[t].csv_url \in DOMAIN parsedFrom
    /\ response'.kind = "json"
    /\ parsedFrom'[loc[t].csv_url] = parsedFrom[loc[t].csv_url]

\* C16: when the revalidation fetch of a stale listing returns the content
\* the stored listing was parsed from, _parse_learnset_csv is not invoked,
\* the stored listing is returned and stays stored, and only the timestamp
\* of the URL changes.
C16_LearnsetNoReparse ==
    [][\A t \in Callers :
          RevalidatesSame(t) =>
             /\ listingParses' = listingParses
             /\ response' = Returned("learnset", "json", _learnset_cache[loc[t].csv_url])
             /\ _learnset_cache' = _learnset_cache
             /\ _learnset_cache_ts' =
                   dict_set(_learnset_cache_ts, loc[t].csv_url, loc[t].now)]_vars

\* C17: a get whose fetch fails changes no cache state: the steps of
\* get_mons_smart up to and including a failed fetch (lines 162-169) leave
\* _last_check, _last_hash and _cached_mons as they were, and the steps of
\* learnset from its clock read up to and including a failed secondary
\* fetch (lines 300-317) leave _learnset_cache and _learnset_cache_ts as
\* they were.
C17_FailedFetchNoChange ==
    [][\A t \in Callers :
          /\ (Dex(t) \/ Learnset(t) \/ PrimaryFetchFails(t)) =>
                cacheVars' = cacheVars
          /\ (L300(t) \/ LearnsetFetchFails(t)) =>
                learnsetVars' = learnsetVars]_vars

\* A fetch of CSV_URL has just failed while a snapshot is stored.
C17_Witness ==
    /\ response.kind = "raise"
    /\ response.val = "RequestException"
    /\ _last_hash # NoHash
    /\ _cached_mons # <<>>

\* The id a row with a name derives (lines 123 and 130).
RowId(row) == slugify(FirstNonBlankLine(row))

\* C18: when rows derive the same id the later row wins: the collection
\* holds a single mon for every id, and the lookup of learnset (line 286)
\* finds for an id the mon of the last row that derives it, with that
\* row's moves_link.
C18_LastRowWins ==
    applied =>
       LET rows == IF arg = <<>> THEN <<>> ELSE Tail(arg)
           named == SelectSeq(rows, HasNonBlankLine)
       IN  \A k \in 1..Len(named) :
              LET id == RowId(named[k])
                  last == CHOOSE j \in 1..Len(named) :
                             /\ RowId(named[j]) = id
                             /\ \A m \in (j + 1)..Len(named) : RowId(named[m]) # id
              IN  /\ Cardinality({i \in 1..Len(result) : result[i].id = id}) = 1
                  /\ find_mon(result, id) # <<>>
                  /\ find_mon(result, id)[1].moves_link
                        = strip(pad(named[last], 7)[7], Whitespace)

(***************************************************************************)
(* _sheet_link_to_csv_url applied on its own to a link.                    *)
(***************************************************************************)
LinkBodies ==
    {<<"docs.google.com", "/spreadsheets/d/", id, "/edit">> :
        id \in {"SHEET1", "SHEET2"} \cup LongIdTokens}
    \cup {<<"docs.google.com", "/spreadsheets/d/", "e", "/", id, "/pubhtml">> :
        id \in {"PUB1"} \cup LongIdTokens}
    \cup {<<"googleusercontent.com", "/", "export", "/", id, "?">> :
        id \in LongIdTokens}
    \cup {<<"short.example", "/x">>, <<>>}

LinkGids == {<<>>, <<"#gid=", "7">>, <<"?gid=", "0">>, <<"&gid=", "7">>, <<"#gid=">>}

\* The links resolved: with or without a leading blank and a scheme, a body
\* of one of the link classes, with or without a gid.
LinkInputs ==
    {pre \o body \o gid :
        pre \in {<<>>, <<" ">>, <<"https://">>}, body \in LinkBodies, gid \in LinkGids}

InitLink ==
    /\ InitCaches
    /\ arg \in LinkInputs
    /\ result = NoUrl
    /\ applied = FALSE

\* Lines 186-241 run on arg.
ResolveLink ==
    /\ ~applied
    /\ \E csv_url \in sheet_link_to_csv_url(arg) : result' = csv_url
    /\ applied' = TRUE
    /\ UNCHANGED <<arg, clock, ticks, cacheVars, learnsetVars, pc, loc, calls,
                   response, histVars>>

SpecLink == InitLink /\ [][ResolveLink]_vars

\* C19: every link class reaches its own builder: a published link
\* (docs.google.com/spreadsheets/d/e/<publication id>/...) resolves to the
\* published-CSV export URL built from the publication id and the gid of
\* the link ("0" when it has none).
C19_PublishedResolves ==
    LET url == strip(arg, Whitespace)
        pub_id == search_published(url)
        gid == IF search_gid(url) # None THEN search_gid(url) ELSE "0"
    IN  (applied /\ pub_id # None) => result = ExportUrl("pub", pub_id, gid)

\* C20: the validation timestamp of a cache key never decreases: no step
\* stores in _last_check a time older than the one stored, nor in
\* _learnset_cache_ts[u] for any URL u.
C20_TimestampMonotone ==
    [][/\ _last_check' >= _last_check
       /\ \A u \in DOMAIN _learnset_cache_ts :
             /\ u \in DOMAIN _learnset_cache_ts'
             /\ _learnset_cache_ts'[u] >= _learnset_cache_ts[u]]_vars

====
